---- MODULE Spec2Model ----
(***************************************************************************)
(* Edge bridge: the priority command queue and its dispatcher              *)
(* (command_queue.py), the Modbus transport with its bus lock              *)
(* (modbus_client.py), the sampler (data_publisher.py), the health         *)
(* supervisor (health_monitor.py) and the asyncio tasks that main.py       *)
(* starts.  One asyncio event loop runs everything: a step of the model    *)
(* is what one task does between two suspension points.                    *)
(***************************************************************************)
EXTENDS Integers, Sequences, FiniteSets, TLC

(***************************************************************************)
(* Bounds of the model.                                                    *)
(***************************************************************************)
\* number of commands submitted in one behaviour of Spec
MaxCmds == 2
\* number of commands submitted in one behaviour of SpecQ
MaxQueueCmds == 3
\* number of commands submitted in one behaviour of SpecApi
MaxApiCmds == 2
\* Settings.MAX_QUEUE_SIZE as configured for the modelled deployment
MaxQueueSize == 2
\* number of entries of key_registers the sampler reads in one tick
MaxKeyRegs == 1
\* largest value of ModbusClient.consecutive_failures that is followed
MaxFailures == 1

\* largest value of ModbusClient.consecutive_failures that is followed in SpecSup
MaxProbeFailures == 6
\* largest value of HealthMonitor.consecutive_failures that is followed
MaxHealthFailures == 6

(***************************************************************************)
(* Program constants.                                                      *)
(***************************************************************************)
\* Command.retry_count
RETRY_COUNT == 3
\* Settings.MODBUS_RETRY_COUNT
MODBUS_RETRY_COUNT == 3
\* Settings.MAX_CONSECUTIVE_FAILURES
MAX_CONSECUTIVE_FAILURES == 5
\* the threshold of the performance alert in _process_health_alerts
ALERT_FAILURES == 3
\* CommandPriority
LOW == 1
NORMAL == 2
HIGH == 3
CRITICAL == 4

\* the priorities add_command is given in SpecQ
Priorities == {NORMAL, CRITICAL}

\* InverterRegisters: the catalog entries the modelled commands name
KnownRegisters == {"battery_soc", "enable_charge", "charge_time_1_start", "charge_time_1_end"}
WritableRegisters == {"enable_charge", "charge_time_1_start", "charge_time_1_end"}

\* the (command_type, register) pairs a submission carries in Spec: a
\* command of two transport writes and a command type without a handler
CmdSpecs ==
    { [kind |-> "set_charge_schedule", register |-> "charge_time_1"],
      [kind |-> "reboot",              register |-> "none"] }

\* inbound payloads: command_type, the top-level key "register" ("none":
\* the payload has no such key) and the key "register" of its data object.
\* The first is the payload of scenario S1 and of test_command_endpoint.
ReadPayload ==
    [ command_type |-> "read_register", register |-> "none",
      data |-> [register |-> "battery_soc"] ]
RebootPayload ==
    [ command_type |-> "reboot", register |-> "none",
      data |-> [register |-> "none"] ]

\* POST /commands: add_command(command) stores the whole payload as
\* Command.data, so that command.data.get("register") reads its top level
HttpSpec(p) == [kind |-> p.command_type, register |-> p.register]

\* add_mqtt_command stores payload["data"] as Command.data
MqttSpec(p) == [kind |-> p.command_type, register |-> p.data.register]

\* the pairs a submission carries in SpecQ: a write that the accessor
\* rejects (the register is read-only) and a command type without a handler
QueueCmdSpecs ==
    { [kind |-> "write_register",      register |-> "battery_soc"],
      [kind |-> "reboot",              register |-> "none"] }

\* the payloads POST /commands receives in SpecApi
ApiPayloads == { ReadPayload, RebootPayload }

\* the callers of the transport: the execution task of the dispatcher,
\* the sampler loop and the health check loop
Tasks == {"exec", "sampler", "health"}

\* states of a caller inside a transport operation that hold the bus lock
Busy == {"onwire", "retrysleep"}

Terminal == {"completed", "failed", "timeout", "cancelled"}

VARIABLES
    phase,            \* "init" before lifespan startup, "running" after
    connected,        \* ModbusClient.connected
    cmds,             \* the Command objects, in order of creation
    queue,            \* CommandQueue.queue: indices into cmds
    current_command,  \* CommandQueue.current_command (0 = None)
    processing,       \* CommandQueue.processing
    dpc,              \* dispatcher: "loop" (between iterations) or "wait" (in asyncio.wait)
    dcmd,             \* the local variable command of process_next_command
    tmo,              \* timeout_task: "none", "sleeping", "fired"
    epc,              \* execute_task: "none", "start", "op_first", "op_last", "done", "cancelling"
    tst,              \* per caller: "idle", "waitlock", "onwire", "retrysleep"
    tatt,             \* per caller: the value of attempt in the retry loop
    locked,           \* ModbusClient.lock is held
    waiters,          \* the callers waiting for ModbusClient.lock, FIFO
    cf,               \* ModbusClient.consecutive_failures
    spc,              \* sampler: "sleep", "read", "gap"
    sidx,             \* sampler: index in key_registers
    hpc,              \* health check loop: "sleep", "probe"
    command_history,  \* CommandQueue.command_history: command id -> index into cmds
    reply,            \* what the add_command / add_mqtt_command / cancel_command of the last step gave its caller
    responses,        \* the command ids published on the commands/response topic
                      \* (publish_command_response has no caller: no action adds one)
    mqtt_connected,   \* MQTTClient.connected
    inbox,            \* the command messages for which a _handle_command task is pending
    received,         \* the command ids of the command messages received so far
    alerts_sent,      \* HealthMonitor.alerts_sent
    consecutive_failures, \* HealthMonitor.consecutive_failures
    health,           \* the local variable health of _check_modbus_health during the probe
    health_status,    \* the health_status of the last perform_health_check (health_history[-1])
    emitted,          \* the alert keys for which _send_alert was called in the last step
    register_def,     \* codec: the catalog entry given to the typed accessor
    raw_values,       \* codec: the register words read from the device
    value,            \* codec: << v >> once convert_register_value returned v
    scaled_value,     \* codec: << w >> once write_register_by_name computed the word w to write
    write_result,     \* what write_register_by_name returned: "none" (not yet), "True", "False"
    closed,           \* the components lifespan has disconnected, in order
    start_written,    \* what the write of the start register returned, while the write of the end
                      \* register is under way ("none" otherwise; _execute_command does not keep it)
    tick,             \* sampler: 0 or 1, it tells a call of collect_and_publish from the one before
    data_len,         \* sampler: len(data) in read_all_data_registers
    tick_result,      \* sampler: how the last collect_and_publish ended ("none": there was none)
    raw_data,         \* enricher: the argument of _enhance_data
    enhanced          \* enricher: what _enhance_data returned (empty before)

vars == << phase, connected, cmds, queue, current_command, processing, dpc, dcmd,
           tmo, epc, tst, tatt, locked, waiters, cf, spc, sidx, hpc,
           command_history, reply, responses,
           mqtt_connected, inbox, received,
           alerts_sent, consecutive_failures, health, health_status, emitted,
           closed, register_def, raw_values, value, scaled_value, write_result, raw_data, enhanced,
           tick, data_len, tick_result, start_written >>

queueVars == << cmds, queue, current_command >>
dispVars == << processing, dpc, dcmd, tmo, epc >>
busVars == << tst, tatt, locked, waiters, cf >>
loopVars == << spc, sidx, hpc >>
brokerVars == << inbox, received >>
supVars == << alerts_sent, consecutive_failures, health, health_status, emitted >>
codecVars == << register_def, raw_values, value, scaled_value, write_result >>
enrichVars == << raw_data, enhanced >>
sampleVars == << tick, data_len, tick_result >>
otherVars == << brokerVars, supVars, closed, codecVars, enrichVars, sampleVars >>
staticVars == << otherVars, start_written >>
extVars == << mqtt_connected, staticVars >>

CmdIds == 1..Len(cmds)

\* the command ids a caller of cancel_command can name: those it was given
KnownIds == { cmds[c].id : c \in CmdIds }

(***************************************************************************)
(* CommandQueue                                                            *)
(***************************************************************************)
\* _insert_by_priority: the index of the first queued command of strictly
\* lower priority, or the end of the queue
InsertIndexAppend(q, prio, cs) == Len(q) + 1
InsertIndexBeforeEqual(q, prio, cs) ==
    LET lower == { i \in 1..Len(q) : prio >= cs[q[i]].priority }
    IN  IF lower = {} THEN Len(q) + 1
        ELSE CHOOSE i \in lower : \A j \in lower : i <= j
InsertIndex(q, prio, cs) ==
    LET lower == { i \in 1..Len(q) : prio > cs[q[i]].priority }
    IN  IF lower = {} THEN Len(q) + 1
        ELSE CHOOSE i \in lower : \A j \in lower : i <= j

InsertByPriority(q, c, cs) ==
    LET k == InsertIndex(q, cs[c].priority, cs)
    IN  SubSeq(q, 1, k - 1) \o << c >> \o SubSeq(q, k, Len(q))

RemoveAt(q, i) == SubSeq(q, 1, i - 1) \o SubSeq(q, i + 1, Len(q))

\* str(uuid.uuid4()) of the n-th command created: fresh
Uuid(n) == "uuid-" \o ToString(n)

\* the command_id values a caller of add_mqtt_command supplies
SuppliedIds == {"job-1"}

\* command_history[command_id] = command
HistoryPut(h, id, c) ==
    [i \in DOMAIN h \cup {id} |-> IF i = id THEN c ELSE h[i]]

\* Command(...): a new command is Pending with no attempts
NewCommand(id, spec, prio) ==
    [ id |-> id,
      kind |-> spec.kind, register |-> spec.register, priority |-> prio,
      status |-> "pending", attempts |-> 0, result |-> "None", error |-> "None" ]

\* complete_command
CompleteCommand(cs, c, res) ==
    [cs EXCEPT ![c].status = "completed", ![c].result = res]

\* fail_command: the retry test
ShouldRetryInclusive(attempts) == attempts <= RETRY_COUNT
ShouldRetry(attempts) == attempts < RETRY_COUNT

\* fail_command: the command record afterwards
FailCommand(cs, c, err) ==
    [cs EXCEPT ![c].error = err,
               ![c].status = IF ShouldRetry(cs[c].attempts) THEN "pending" ELSE "failed"]

\* fail_command: the queue afterwards
FailQueueAtHead(q, cs, c, err) ==
    IF ShouldRetry(cs[c].attempts) THEN << c >> \o q ELSE q
FailQueue(q, cs, c, err) ==
    IF ShouldRetry(cs[c].attempts)
    THEN InsertByPriority(q, c, FailCommand(cs, c, err))
    ELSE q

\* timeout_command
TimeoutCommandKeepStatus(cs, c) ==
    [cs EXCEPT ![c].error = "timed_out"]
TimeoutCommand(cs, c) ==
    [cs EXCEPT ![c].status = "timeout", ![c].error = "timed_out"]

\* get_next_command: the command record afterwards
MarkProcessingUncounted(cs, c) ==
    [cs EXCEPT ![c].status = "processing"]
MarkProcessing(cs, c) ==
    [cs EXCEPT ![c].status = "processing", ![c].attempts = @ + 1]

(***************************************************************************)
(* ModbusClient: the bus lock and the retry cycle                          *)
(***************************************************************************)
\* asyncio.Lock.acquire without suspension: the lock is free and nobody waits
CanAcquireAlways(l, w) == TRUE
CanAcquire(l, w) == ~l /\ w = << >>

\* a caller enters "async with self.lock" of a read or write
CallOp(t) ==
    IF CanAcquire(locked, waiters)
    THEN /\ locked' = TRUE
         /\ tst' = [tst EXCEPT ![t] = "onwire"]
         /\ tatt' = [tatt EXCEPT ![t] = 0]
         /\ waiters' = waiters
    ELSE /\ locked' = locked
         /\ tst' = [tst EXCEPT ![t] = "waitlock"]
         /\ tatt' = [tatt EXCEPT ![t] = 0]
         /\ waiters' = Append(waiters, t)

\* a caller leaves "async with self.lock" and returns
ReturnOp(t) ==
    /\ locked' = FALSE
    /\ tst' = [tst EXCEPT ![t] = "idle"]
    /\ tatt' = [tatt EXCEPT ![t] = 0]
    /\ waiters' = waiters

\* a caller leaves "async with self.lock" and enters the next one without
\* suspension in between
ReturnAndCallOpSuspended(t) ==
    /\ locked' = FALSE
    /\ tst' = [tst EXCEPT ![t] = "waitlock"]
    /\ tatt' = [tatt EXCEPT ![t] = 0]
    /\ waiters' = Append(waiters, t)
ReturnAndCallOp(t) ==
    IF CanAcquire(FALSE, waiters)
    THEN /\ locked' = TRUE
         /\ tst' = [tst EXCEPT ![t] = "onwire"]
         /\ tatt' = [tatt EXCEPT ![t] = 0]
         /\ waiters' = waiters
    ELSE /\ locked' = FALSE
         /\ tst' = [tst EXCEPT ![t] = "waitlock"]
         /\ tatt' = [tatt EXCEPT ![t] = 0]
         /\ waiters' = Append(waiters, t)

\* the outcome of the on-wire attempt of caller t: "ok", "retry" or "fail"
Outcome(t, ok) ==
    IF ok THEN "ok"
    ELSE IF tatt[t] < MODBUS_RETRY_COUNT - 1 THEN "retry" ELSE "fail"

\* consecutive_failures after the attempt
NextCfPerAttempt(t, ok) == IF ok THEN 0 ELSE cf + 1
NextCf(t, ok) ==
    CASE Outcome(t, ok) = "ok"    -> 0
      [] Outcome(t, ok) = "retry" -> cf
      [] Outcome(t, ok) = "fail"  -> cf + 1

\* _check_modbus_health has not run / is not running
NoHealth ==
    [ status |-> "none", issue |-> "none", connected |-> FALSE,
      consecutive_failures |-> 0 ]

\* perform_health_check has not run yet (timestamp: 0 or 1, it tells a
\* check from the one before)
NoHealthStatus ==
    [ timestamp |-> 0, overall_status |-> "none", modbus |-> NoHealth,
      mqtt_connected |-> FALSE ]

\* the state after the module-level construction of main.py: nothing is
\* connected, the queue is empty, no loop has started
InitProgram ==
    /\ phase = "init"
    /\ connected = FALSE
    /\ cmds = << >>
    /\ queue = << >>
    /\ current_command = 0
    /\ processing = FALSE
    /\ dpc = "loop"
    /\ dcmd = 0
    /\ tmo = "none"
    /\ epc = "none"
    /\ tst = [t \in Tasks |-> "idle"]
    /\ tatt = [t \in Tasks |-> 0]
    /\ locked = FALSE
    /\ waiters = << >>
    /\ cf = 0
    /\ spc = "sleep"
    /\ sidx = 0
    /\ hpc = "sleep"
    /\ command_history = << >>
    /\ reply = "none"
    /\ responses = {}
    /\ mqtt_connected = FALSE
    /\ inbox = {}
    /\ received = {}
    /\ alerts_sent = {}
    /\ consecutive_failures = 0
    /\ health = NoHealth
    /\ health_status = NoHealthStatus
    /\ emitted = {}
    /\ closed = << >>
    /\ tick = 0
    /\ data_len = 0
    /\ tick_result = "none"
    /\ start_written = "none"

\* no typed accessor call and no enrichment is followed
CodecIdle ==
    /\ register_def = "none"
    /\ raw_values = << >>
    /\ value = << >>
    /\ scaled_value = << >>
    /\ write_result = "none"

EnricherIdle ==
    /\ raw_data = << >>
    /\ enhanced = << >>

Init == InitProgram /\ CodecIdle /\ EnricherIdle

\* lifespan: the broker connection is established, ModbusClient.connect
\* succeeds or not, then the loops start
Startup(ok) ==
    /\ phase = "init"
    /\ phase' = "running"
    /\ connected' = ok
    /\ mqtt_connected' = TRUE
    /\ reply' = "none"
    /\ UNCHANGED << staticVars, command_history, responses, queueVars, dispVars, busVars, loopVars >>

\* the size check of add_command and add_mqtt_command
QueueFull(q) == Len(q) >= MaxQueueSize

\* add_command with room in the queue, for at most limit commands in one
\* behaviour: the command is inserted and recorded, its id is returned
Submit(spec, prio, limit) ==
    /\ phase = "running"
    /\ Len(cmds) < limit
    /\ ~QueueFull(queue)
    /\ LET cs == Append(cmds, NewCommand(Uuid(Len(cmds) + 1), spec, prio))
       IN  /\ cmds' = cs
           /\ queue' = InsertByPriority(queue, Len(cs), cs)
           /\ command_history' = HistoryPut(command_history, cs[Len(cs)].id, Len(cs))
    /\ reply' = "command_id"
    /\ UNCHANGED << extVars, responses, phase, connected, current_command, dispVars, busVars, loopVars >>

\* add_command with a full queue: the exception reaches the caller
SubmitRejected ==
    /\ phase = "running"
    /\ QueueFull(queue)
    /\ reply' = "QueueFull"
    /\ UNCHANGED << extVars, command_history, responses, phase, connected, queueVars, dispVars, busVars, loopVars >>

\* add_mqtt_command with the command_id the payload supplies: with a full
\* queue the rejection is logged and the id is returned as for an accepted
\* command
AddMqttCommand(id, spec, prio) ==
    IF QueueFull(queue)
    THEN UNCHANGED << cmds, queue, command_history >>
    ELSE LET cs == Append(cmds, NewCommand(id, spec, prio))
         IN  /\ cmds' = cs
             /\ queue' = InsertByPriority(queue, Len(cs), cs)
             /\ command_history' = HistoryPut(command_history, id, Len(cs))

SubmitMqtt(id, spec, prio, limit) ==
    /\ phase = "running"
    /\ QueueFull(queue) \/ Len(cmds) < limit
    /\ AddMqttCommand(id, spec, prio)
    /\ reply' = "command_id"
    /\ UNCHANGED << extVars, responses, phase, connected, current_command, dispVars, busVars, loopVars >>

\* hasattr(self, '_command_queue') in _handle_command: the attribute is set
\* by set_command_queue only, which nothing calls
HasCommandQueue == FALSE

\* _on_message for a message on a command topic whose payload carries
\* command_id id: a task for _handle_command is created (scheduled), or
\* asyncio.create_task raises in the thread of the MQTT network loop and
\* the exception is logged
BrokerMessage(id, scheduled) ==
    /\ phase = "running"
    /\ mqtt_connected
    /\ id \notin received
    /\ received' = received \cup {id}
    /\ inbox' = IF scheduled THEN inbox \cup {id} ELSE inbox
    /\ reply' = "none"
    /\ UNCHANGED << mqtt_connected, supVars, closed, codecVars, enrichVars, sampleVars, start_written, command_history,
                    responses, phase, connected, queueVars, dispVars, busVars, loopVars >>

\* the task of _handle_command runs: add_mqtt_command(payload) if the
\* client has a command queue, a warning otherwise
HandleCommand(id, p) ==
    /\ id \in inbox
    /\ inbox' = inbox \ {id}
    /\ IF HasCommandQueue
       THEN AddMqttCommand(id, MqttSpec(p), NORMAL)
       ELSE UNCHANGED << cmds, queue, command_history >>
    /\ reply' = "none"
    /\ UNCHANGED << received, mqtt_connected, supVars, closed, codecVars, enrichVars, sampleVars, start_written,
                    responses, phase, connected, current_command, dispVars, busVars, loopVars >>

\* position in q of the first command with this id (0: none)
QueuePos(q, cs, id) ==
    LET hits == { i \in 1..Len(q) : cs[q[i]].id = id }
    IN  IF hits = {} THEN 0 ELSE CHOOSE i \in hits : \A j \in hits : i <= j

\* cancel_command of a queued id: the first queued command with this id is
\* marked Cancelled and removed
CancelInterrupting(id) ==
    /\ phase = "running"
    /\ LET hits == { c \in CmdIds : cmds[c].id = id /\ cmds[c].status \in {"pending", "processing"} }
       IN  /\ hits # {}
           /\ cmds' = [c \in CmdIds |->
                         IF c \in hits THEN [cmds[c] EXCEPT !.status = "cancelled"] ELSE cmds[c]]
           /\ queue' = SelectSeq(queue, LAMBDA c : c \notin hits)
    /\ reply' = "True"
    /\ UNCHANGED << extVars, command_history, responses, phase, connected, current_command, dispVars, busVars, loopVars >>
Cancel(id) ==
    /\ phase = "running"
    /\ LET i == QueuePos(queue, cmds, id)
       IN  /\ i > 0
           /\ cmds' = [cmds EXCEPT ![queue[i]].status = "cancelled"]
           /\ queue' = RemoveAt(queue, i)
    /\ reply' = "True"
    /\ UNCHANGED << extVars, command_history, responses, phase, connected, current_command, dispVars, busVars, loopVars >>

\* cancel_command of an id that no queued command has: False
CancelMiss(id) ==
    /\ phase = "running"
    /\ QueuePos(queue, cmds, id) = 0
    /\ reply' = "False"
    /\ UNCHANGED << extVars, command_history, responses, phase, connected, queueVars, dispVars, busVars, loopVars >>

\* clear_queue
ClearQueueAll ==
    /\ phase = "running"
    /\ queue # << >>
    /\ cmds' = [c \in CmdIds |->
                  IF cmds[c].status \in {"pending", "processing"}
                  THEN [cmds[c] EXCEPT !.status = "cancelled"]
                  ELSE cmds[c]]
    /\ queue' = << >>
    /\ reply' = "none"
    /\ UNCHANGED << extVars, command_history, responses, phase, connected, current_command, dispVars, busVars, loopVars >>
ClearQueue ==
    /\ phase = "running"
    /\ queue # << >>
    /\ cmds' = [c \in CmdIds |->
                  IF \E i \in 1..Len(queue) : queue[i] = c
                  THEN [cmds[c] EXCEPT !.status = "cancelled"]
                  ELSE cmds[c]]
    /\ queue' = << >>
    /\ reply' = "none"
    /\ UNCHANGED << extVars, command_history, responses, phase, connected, current_command, dispVars, busVars, loopVars >>

\* command_processor -> process_next_command up to asyncio.wait:
\* get_next_command, processing = True, the two tasks are created (the loop
\* of command_processor has no exit: it iterates as long as the event loop
\* runs it)
DispatchStart ==
    /\ phase # "init"
    /\ dpc = "loop"
    /\ epc = "none"
    /\ ~processing
    /\ queue # << >>
    /\ LET c == Head(queue)
       IN  /\ queue' = Tail(queue)
           /\ current_command' = c
           /\ cmds' = MarkProcessing(cmds, c)
           /\ dcmd' = c
    /\ processing' = TRUE
    /\ dpc' = "wait"
    /\ tmo' = "sleeping"
    /\ epc' = "start"
    /\ reply' = "none"
    /\ UNCHANGED << extVars, command_history, responses, phase, connected, busVars, loopVars >>

\* the command needs a transport operation: its register is in the catalog
\* and, for a write, writable
Accepted(cmd) ==
    CASE cmd.kind = "read_register"       -> cmd.register \in KnownRegisters
      [] cmd.kind = "write_register"      -> cmd.register \in WritableRegisters
      [] cmd.kind = "set_charge_schedule" -> TRUE
      [] OTHER                            -> FALSE

\* the handler of cmd awaits the transport: an unknown command type raises
\* and a rejected or unconnected accessor call returns without suspension
SuspendsUnconnected(cmd) == Accepted(cmd)
Suspends(cmd) == Accepted(cmd) /\ connected

\* timeout_task and execute_task take their first steps in the same turn of
\* the event loop, timeout_task first; the timer of command.timeout seconds
\* is due in a later turn, and a handler that never suspends has finished by
\* then, so that asyncio.wait returns with timeout_task pending
TimeoutCanElapseAnytime == TRUE
TimeoutCanElapse == epc # "start" /\ Suspends(cmds[dcmd])

\* asyncio.sleep(command.timeout) of timeout_task elapses
TimeoutFire ==
    /\ tmo = "sleeping"
    /\ TimeoutCanElapse
    /\ tmo' = "fired"
    /\ reply' = "none"
    /\ UNCHANGED << extVars, command_history, responses, phase, connected, queueVars, processing, dpc, dcmd, epc, busVars, loopVars >>

\* _execute_command ends with complete_command(command, res)
ExecComplete(res) ==
    /\ cmds' = CompleteCommand(cmds, dcmd, res)
    /\ current_command' = 0
    /\ queue' = queue
    /\ epc' = "done"

\* _execute_command ends with fail_command(command, err)
ExecFail(err) ==
    /\ cmds' = FailCommand(cmds, dcmd, err)
    /\ queue' = FailQueue(queue, cmds, dcmd, err)
    /\ current_command' = 0
    /\ epc' = "done"

\* the value read_register_by_name / write_register_by_name returns when
\* the transport operation returned with success ok
OpResult(kind, ok) ==
    IF kind = "read_register"
    THEN IF ok THEN "Value" ELSE "None"
    ELSE IF ok THEN "True" ELSE "False"

\* the command types _execute_command has a branch for
CommandTypes ==
    { "read_register", "write_register", "read_all_data", "set_charge_mode",
      "set_discharge_mode", "set_charge_power", "set_discharge_power",
      "set_charge_schedule", "set_discharge_schedule" }

\* str(e) of the exception the else branch of _execute_command raises
UnknownCommandErrorUnnamed(kind) == "Unknown command type"
UnknownCommandError(kind) == "Unknown command type: " \o kind

\* _execute_command from its start to its first suspension or its end
ExecStart ==
    /\ epc = "start"
    /\ LET cmd == cmds[dcmd]
       IN  IF cmd.kind \notin {"read_register", "write_register", "set_charge_schedule"}
           THEN /\ ExecFail(UnknownCommandError(cmd.kind))
                /\ UNCHANGED busVars
           ELSE IF ~Suspends(cmd)
           THEN /\ ExecComplete(OpResult(cmd.kind, FALSE))
                /\ UNCHANGED busVars
           ELSE /\ CallOp("exec")
                /\ epc' = IF cmd.kind = "set_charge_schedule" THEN "op_first" ELSE "op_last"
                /\ UNCHANGED << queueVars, cf >>
    /\ reply' = "none"
    /\ UNCHANGED << extVars, command_history, responses, phase, connected, processing, dpc, dcmd, tmo, loopVars >>

\* a caller that waited for the bus lock gets it and issues its first request
Acquire(t) ==
    /\ tst[t] = "waitlock"
    /\ t = "exec" => epc # "cancelling"
    /\ ~locked
    /\ waiters # << >>
    /\ Head(waiters) = t
    /\ locked' = TRUE
    /\ waiters' = Tail(waiters)
    /\ tst' = [tst EXCEPT ![t] = "onwire"]
    /\ reply' = "none"
    /\ UNCHANGED << extVars, command_history, responses, phase, connected, queueVars, dispVars, tatt, cf, loopVars >>

\* asyncio.sleep(MODBUS_RETRY_DELAY) elapses and the next request is issued
RetryWake(t) ==
    /\ tst[t] = "retrysleep"
    /\ t = "exec" => epc # "cancelling"
    /\ tst' = [tst EXCEPT ![t] = "onwire"]
    /\ tatt' = [tatt EXCEPT ![t] = @ + 1]
    /\ reply' = "none"
    /\ UNCHANGED << extVars, command_history, responses, phase, connected, queueVars, dispVars, locked, waiters, cf, loopVars >>

\* the device answers the request of the execution task (ok) or the request
\* fails; the task runs on to its next suspension or its end
ExecResponse(ok) ==
    /\ tst["exec"] = "onwire"
    /\ epc \in {"op_first", "op_last"}
    /\ NextCf("exec", ok) <= MaxFailures
    /\ cf' = NextCf("exec", ok)
    /\ CASE Outcome("exec", ok) = "retry" ->
              /\ tst' = [tst EXCEPT !["exec"] = "retrysleep"]
              /\ UNCHANGED << tatt, locked, waiters, queueVars, epc, start_written >>
         [] Outcome("exec", ok) # "retry" /\ epc = "op_first" ->
              /\ ReturnAndCallOp("exec")
              /\ epc' = "op_last"
              /\ start_written' = OpResult(cmds[dcmd].kind, ok)
              /\ UNCHANGED queueVars
         [] Outcome("exec", ok) # "retry" /\ epc = "op_last" ->
              /\ ReturnOp("exec")
              /\ ExecComplete(OpResult(cmds[dcmd].kind, ok))
              /\ start_written' = "none"
    /\ reply' = "none"
    /\ UNCHANGED << mqtt_connected, otherVars, command_history, responses, phase, connected, processing, dpc, dcmd, tmo, loopVars >>

\* process_next_command after asyncio.wait returned: cancel the pending
\* tasks, timeout_command if timeout_task is done, processing = False
DispatchResumeStuck ==
    /\ dpc = "wait"
    /\ tmo = "fired" \/ epc = "done"
    /\ cmds' = IF tmo = "fired" THEN TimeoutCommand(cmds, dcmd) ELSE cmds
    /\ current_command' = IF tmo = "fired" THEN 0 ELSE current_command
    /\ epc' = IF epc = "done" THEN "none" ELSE "cancelling"
    /\ tmo' = "none"
    /\ processing' = processing
    /\ dpc' = "loop"
    /\ dcmd' = 0
    /\ start_written' = "none"
    /\ reply' = "none"
    /\ UNCHANGED << mqtt_connected, otherVars, command_history, responses, phase, connected, queue,
                    busVars, loopVars >>
DispatchResume ==
    /\ dpc = "wait"
    /\ tmo = "fired" \/ epc = "done"
    /\ cmds' = IF tmo = "fired" THEN TimeoutCommand(cmds, dcmd) ELSE cmds
    /\ current_command' = IF tmo = "fired" THEN 0 ELSE current_command
    /\ epc' = IF epc = "done" THEN "none" ELSE "cancelling"
    /\ tmo' = "none"
    /\ processing' = FALSE
    /\ dpc' = "loop"
    /\ dcmd' = 0
    /\ start_written' = "none"
    /\ reply' = "none"
    /\ UNCHANGED << mqtt_connected, otherVars, command_history, responses, phase, connected, queue,
                    busVars, loopVars >>

\* the bus lock after CancelledError left "async with self.lock" in a caller
\* in state st: released if the caller held it
LockAfterCancelHeld(st, l) == l
LockAfterCancel(st, l) == IF st \in Busy THEN FALSE ELSE l

\* CancelledError is raised in the cancelled execution task at the await it
\* is suspended in; "async with self.lock" releases the lock on the way out
ExecCancelled ==
    /\ epc = "cancelling"
    /\ epc' = "none"
    /\ tst' = [tst EXCEPT !["exec"] = "idle"]
    /\ tatt' = [tatt EXCEPT !["exec"] = 0]
    /\ locked' = LockAfterCancel(tst["exec"], locked)
    /\ waiters' = SelectSeq(waiters, LAMBDA t : t # "exec")
    /\ reply' = "none"
    /\ UNCHANGED << extVars, command_history, responses, phase, connected, queueVars, processing, dpc, dcmd, tmo, cf, loopVars >>

\* data_collection_loop -> collect_and_publish -> read_all_data_registers:
\* the first read_register_by_name
SamplerTick ==
    /\ phase = "running"
    /\ spc = "sleep"
    /\ connected
    /\ CallOp("sampler")
    /\ spc' = "read"
    /\ sidx' = 1
    /\ reply' = "none"
    /\ UNCHANGED << extVars, command_history, responses, phase, connected, queueVars, dispVars, cf, hpc >>

\* the device answers the sampler's request or the request fails
SamplerResponse(ok) ==
    /\ tst["sampler"] = "onwire"
    /\ NextCf("sampler", ok) <= MaxFailures
    /\ cf' = NextCf("sampler", ok)
    /\ IF Outcome("sampler", ok) = "retry"
       THEN /\ tst' = [tst EXCEPT !["sampler"] = "retrysleep"]
            /\ UNCHANGED << tatt, locked, waiters, spc >>
       ELSE /\ ReturnOp("sampler")
            /\ spc' = "gap"
    /\ reply' = "none"
    /\ UNCHANGED << extVars, command_history, responses, phase, connected, queueVars, dispVars, sidx, hpc >>

\* asyncio.sleep(0.1) after a read elapses: the next register, or the end
\* of the tick
SamplerGap ==
    /\ spc = "gap"
    /\ IF sidx < MaxKeyRegs
       THEN /\ CallOp("sampler")
            /\ spc' = "read"
            /\ sidx' = sidx + 1
       ELSE /\ spc' = "sleep"
            /\ sidx' = 0
            /\ UNCHANGED << tst, tatt, locked, waiters >>
    /\ reply' = "none"
    /\ UNCHANGED << extVars, command_history, responses, phase, connected, queueVars, dispVars, cf, hpc >>

\* health_check_loop -> perform_health_check -> _check_modbus_health: the
\* probe read of battery_voltage
HealthTick ==
    /\ phase = "running"
    /\ hpc = "sleep"
    /\ connected
    /\ CallOp("health")
    /\ hpc' = "probe"
    /\ reply' = "none"
    /\ UNCHANGED << extVars, command_history, responses, phase, connected, queueVars, dispVars, cf, spc, sidx >>

\* the device answers the probe or the probe fails
HealthResponse(ok) ==
    /\ tst["health"] = "onwire"
    /\ NextCf("health", ok) <= MaxFailures
    /\ cf' = NextCf("health", ok)
    /\ IF Outcome("health", ok) = "retry"
       THEN /\ tst' = [tst EXCEPT !["health"] = "retrysleep"]
            /\ UNCHANGED << tatt, locked, waiters, hpc >>
       ELSE /\ ReturnOp("health")
            /\ hpc' = "sleep"
    /\ reply' = "none"
    /\ UNCHANGED << extVars, command_history, responses, phase, connected, queueVars, dispVars, spc, sidx >>

(***************************************************************************)
(* DataPublisher.collect_and_publish and the loop that calls it            *)
(***************************************************************************)
\* data_collection_loop calls collect_and_publish: without a connected
\* transport it logs a warning and returns (the loop sleeps again),
\* otherwise read_all_data_registers issues its first read
CollectAndPublish ==
    /\ phase = "running"
    /\ spc = "sleep"
    /\ tick' = 1 - tick
    /\ IF connected
       THEN /\ CallOp("sampler")
            /\ spc' = "read"
            /\ sidx' = 1
            /\ data_len' = 0
            /\ UNCHANGED tick_result
       ELSE /\ tick_result' = "skipped"
            /\ UNCHANGED << tst, tatt, locked, waiters, spc, sidx, data_len >>
    /\ reply' = "none"
    /\ UNCHANGED << mqtt_connected, brokerVars, supVars, closed, codecVars, enrichVars,
                    start_written, command_history, responses, phase, connected, queueVars,
                    dispVars, cf, hpc >>

\* the device answers the read or the read fails; a value that is not None
\* is stored in data
CollectResponse(ok) ==
    /\ tst["sampler"] = "onwire"
    /\ NextCf("sampler", ok) <= MaxFailures
    /\ cf' = NextCf("sampler", ok)
    /\ IF Outcome("sampler", ok) = "retry"
       THEN /\ tst' = [tst EXCEPT !["sampler"] = "retrysleep"]
            /\ UNCHANGED << tatt, locked, waiters, spc, data_len >>
       ELSE /\ ReturnOp("sampler")
            /\ spc' = "gap"
            /\ data_len' = IF ok THEN data_len + 1 ELSE data_len
    /\ reply' = "none"
    /\ UNCHANGED << mqtt_connected, brokerVars, supVars, closed, codecVars, enrichVars, tick,
                    tick_result, start_written, command_history, responses, phase, connected, queueVars,
                    dispVars, sidx, hpc >>

\* collect_and_publish after read_all_data_registers returned n values: no
\* data is an error; otherwise the sample is enriched (_enhance_data catches
\* what it raises) and published, and a publish that returns False is an
\* error (rc_ok: the broker client accepted the message)
TickResult(n, mq, rc_ok) ==
    IF n = 0 THEN "no_data"
    ELSE IF mq /\ rc_ok THEN "published" ELSE "publish_failed"

\* data_collection_loop after collect_and_publish returned: it sleeps and
\* iterates, whatever the result
AfterTickStopOnError(result) == IF result = "published" THEN "sleep" ELSE "stopped"
AfterTick(result) == "sleep"

\* asyncio.sleep(0.1) after a read elapses: the next register, or
\* read_all_data_registers returns and collect_and_publish runs to its end
CollectGap(rc_ok) ==
    /\ spc = "gap"
    /\ IF sidx < MaxKeyRegs
       THEN /\ CallOp("sampler")
            /\ spc' = "read"
            /\ sidx' = sidx + 1
            /\ UNCHANGED tick_result
       ELSE /\ tick_result' = TickResult(data_len, mqtt_connected, rc_ok)
            /\ spc' = AfterTick(TickResult(data_len, mqtt_connected, rc_ok))
            /\ sidx' = 0
            /\ UNCHANGED << tst, tatt, locked, waiters >>
    /\ reply' = "none"
    /\ UNCHANGED << mqtt_connected, brokerVars, supVars, closed, codecVars, enrichVars, tick,
                    data_len, start_written, command_history, responses, phase, connected, queueVars,
                    dispVars, cf, hpc >>

(***************************************************************************)
(* ModbusClient: the typed accessor's conversions                          *)
(***************************************************************************)
\* RegisterDefinition of the catalog entries the conversions are followed
\* for: data_type, 1/scale and writable.  int32_register is not in the
\* catalog (no entry has this type, and no writable entry has a type of two
\* words); it stands for the INT32 branch and for a writable wide register.
CodecRegisters ==
    { "battery_low_voltage", "charge_time_1_start", "battery_current", "battery_power",
      "ac_frequency_output", "pv_energy_today", "int32_register" }

RegisterDef(name) ==
    CASE name = "battery_low_voltage" -> [data_type |-> "uint16", per_unit |-> 10,  writable |-> TRUE,  catalog |-> TRUE]
      [] name = "charge_time_1_start" -> [data_type |-> "uint16", per_unit |-> 1,   writable |-> TRUE,  catalog |-> TRUE]
      [] name = "battery_current"     -> [data_type |-> "int16",  per_unit |-> 10,  writable |-> FALSE, catalog |-> TRUE]
      [] name = "battery_power"       -> [data_type |-> "int16",  per_unit |-> 1,   writable |-> FALSE, catalog |-> TRUE]
      [] name = "ac_frequency_output" -> [data_type |-> "uint16", per_unit |-> 100, writable |-> FALSE, catalog |-> TRUE]
      [] name = "pv_energy_today"     -> [data_type |-> "uint32", per_unit |-> 10,  writable |-> FALSE, catalog |-> TRUE]
      [] name = "int32_register"      -> [data_type |-> "int32",  per_unit |-> 1,   writable |-> TRUE,  catalog |-> FALSE]

\* the 16-bit words a register holds in the model
Words16 == {0, 1, 5, 480, 485, 32767, 32768, 65535}

\* the high words of a register pair in the model
HighWords(data_type) == IF data_type = "int32" THEN {0, 1, 65535} ELSE {0, 1}

\* what read_holding_registers returns for a register of this type: count
\* words, count = 2 for the 32-bit types
RawValues(data_type) ==
    IF data_type \in {"uint32", "int32"}
    THEN { << h, l >> : h \in HighWords(data_type), l \in Words16 }
    ELSE { << w >> : w \in Words16 }

\* int(x * scale) for scale = 1/per_unit: the scaled value, truncated
\* towards zero
Scaled(x, per_unit) ==
    IF x >= 0 THEN x \div per_unit ELSE -((-x) \div per_unit)

\* convert_register_value ((h << 16) | l minus 2^32 above 2^31 - 1 is
\* written as (h - 2^16) * 2^16 + l)
ConvertRegisterValue(raw, data_type, per_unit) ==
    CASE data_type = "uint16" -> Scaled(raw[1], per_unit)
      [] data_type = "int16" ->
            Scaled(IF raw[1] > 32767 THEN raw[1] - 65536 ELSE raw[1], per_unit)
      [] data_type = "uint32" -> Scaled(raw[1] * 65536 + raw[2], per_unit)
      [] data_type = "int32" ->
            Scaled(IF raw[1] > 32767 THEN (raw[1] - 65536) * 65536 + raw[2]
                                     ELSE raw[1] * 65536 + raw[2], per_unit)

\* write_register_by_name: int(value / scale), the word handed to
\* write_holding_register
ScaledValue(v, per_unit) == v * per_unit

\* read_register_by_name after the transport returned raw_values
ReadRegisterByName ==
    /\ register_def # "none"
    /\ value = << >>
    /\ value' = << ConvertRegisterValue(raw_values, RegisterDef(register_def).data_type,
                                        RegisterDef(register_def).per_unit) >>
    /\ reply' = "none"
    /\ UNCHANGED << register_def, raw_values, scaled_value, write_result, mqtt_connected, brokerVars, supVars,
                    closed, enrichVars, sampleVars, start_written, command_history, responses, phase, connected,
                    queueVars, dispVars, busVars, loopVars >>

\* write_register_by_name(register_def, value) up to the transport call:
\* only a writable register of a 16-bit type is written
WriteRegisterByName ==
    /\ register_def # "none"
    /\ value # << >>
    /\ scaled_value = << >>
    /\ RegisterDef(register_def).writable
    /\ RegisterDef(register_def).data_type \in {"uint16", "int16"}
    /\ scaled_value' = << ScaledValue(value[1], RegisterDef(register_def).per_unit) >>
    /\ reply' = "none"
    /\ UNCHANGED << register_def, raw_values, value, write_result, mqtt_connected, brokerVars, supVars,
                    closed, enrichVars, sampleVars, start_written, command_history, responses, phase, connected,
                    queueVars, dispVars, busVars, loopVars >>

\* the register names and the values a caller gives write_register_by_name
WriteNames == CodecRegisters \cup {"no_such_register"}

CallerValues == {0, 48, 2300, 6600, 70000, -1}

\* write_register_by_name returns False before it computes anything: the
\* register is unknown, not writable, or not of a 16-bit type
RejectedUnknownOnly(name) == name \notin CodecRegisters
Rejected(name) ==
    \/ name \notin CodecRegisters
    \/ ~RegisterDef(name).writable
    \/ RegisterDef(name).data_type \notin {"uint16", "int16"}

\* write_register_by_name(register_def, value) of a caller outside the
\* dispatcher (it uses the transport as the execution task does), from its
\* start to its first suspension or its return: a rejected register returns
\* False; otherwise scaled_value is handed to write_holding_register, which
\* returns False when the transport is not connected and enters the bus
\* lock for client.write_register(value = scaled_value) when it is
WriteCall ==
    /\ phase = "running"
    /\ epc = "none"
    /\ tst["exec"] = "idle"
    /\ value # << >>
    /\ write_result = "none"
    /\ IF Rejected(register_def)
       THEN /\ write_result' = "False"
            /\ UNCHANGED << scaled_value, tst, tatt, locked, waiters >>
       ELSE /\ scaled_value' = << ScaledValue(value[1], RegisterDef(register_def).per_unit) >>
            /\ IF connected
               THEN /\ CallOp("exec")
                    /\ write_result' = "none"
               ELSE /\ write_result' = "False"
                    /\ UNCHANGED << tst, tatt, locked, waiters >>
    /\ reply' = "none"
    /\ UNCHANGED << register_def, raw_values, value, mqtt_connected, brokerVars, supVars,
                    closed, enrichVars, sampleVars, start_written, command_history, responses, phase, connected,
                    queueVars, dispVars, cf, loopVars >>

\* the device answers client.write_register or the request fails; after
\* the last attempt write_register_by_name returns
WriteResponse(ok) ==
    /\ tst["exec"] = "onwire"
    /\ epc = "none"
    /\ NextCf("exec", ok) <= MaxFailures
    /\ cf' = NextCf("exec", ok)
    /\ IF Outcome("exec", ok) = "retry"
       THEN /\ tst' = [tst EXCEPT !["exec"] = "retrysleep"]
            /\ UNCHANGED << tatt, locked, waiters, write_result >>
       ELSE /\ ReturnOp("exec")
            /\ write_result' = IF ok THEN "True" ELSE "False"
    /\ reply' = "none"
    /\ UNCHANGED << register_def, raw_values, value, scaled_value, mqtt_connected, brokerVars,
                    supVars, closed, enrichVars, sampleVars, start_written, command_history, responses, phase,
                    connected,
                    queueVars, dispVars, loopVars >>

(***************************************************************************)
(* DataPublisher._enhance_data                                             *)
(***************************************************************************)
\* the fields of the raw mapping that _enhance_data derives from, and the
\* values they take in the model (the first line is scenario S6)
EnrichFields ==
    {"pv_power", "battery_power", "load_power", "battery_soc", "ac_power_input", "ac_power_output"}

FieldValues(k) ==
    CASE k = "pv_power"        -> {1200, 0, -50}
      [] k = "battery_power"   -> {-400, 0, 400}
      [] k = "load_power"      -> {900}
      [] k = "battery_soc"     -> {55, 95}
      [] k = "ac_power_input"  -> {0, 1000}
      [] k = "ac_power_output" -> {800}

\* the raw mappings: any of the fields may be absent (a register whose read
\* failed is left out by read_all_data_registers), but not all of them
\* (collect_and_publish does not enrich an empty mapping)
RawInputs ==
    UNION { { f \in [D -> UNION { FieldValues(k) : k \in D }] :
                \A k \in D : f[k] \in FieldValues(k) } :
            D \in (SUBSET EnrichFields) \ {{}} }

\* raw_data.get(k, d)
Get(raw, k, d) == IF k \in DOMAIN raw THEN raw[k] ELSE d

\* round((out / inp) * 100, 2), in hundredths of a percent
Efficiency(out, inp) == ((2 * 10000 * out) \div inp + 1) \div 2

\* _assess_data_quality for a mapping without battery_voltage and working_mode
DataQuality(raw) == IF DOMAIN raw = {} THEN "no_data" ELSE "poor"

\* the keys _enhance_data adds for these inputs
DerivedKeys(raw) ==
    {"energy_flow", "power_balance", "battery_status", "collection_metadata"}
      \cup (IF Get(raw, "ac_power_input", 0) > 0 THEN {"system_efficiency"} ELSE {})

\* and their values
DerivedValueChargingAtZero(raw, k) ==
    LET pv_power == Get(raw, "pv_power", 0)
        battery_power == Get(raw, "battery_power", 0)
        load_power == Get(raw, "load_power", 0)
        soc == Get(raw, "battery_soc", 0)
    IN  CASE k = "energy_flow" ->
                IF pv_power > 0
                THEN IF battery_power >= 0 THEN "pv_to_battery_and_load" ELSE "pv_to_load"
                ELSE IF battery_power < 0 THEN "battery_to_load" ELSE "grid_to_load"
          [] k = "power_balance" -> pv_power + battery_power - load_power
          [] k = "battery_status" ->
                IF soc > 90 THEN "full"
                ELSE IF soc > 50 THEN "good"
                ELSE IF soc > 20 THEN "low"
                ELSE "critical"
          [] k = "system_efficiency" ->
                Efficiency(Get(raw, "ac_power_output", 0), Get(raw, "ac_power_input", 0))
          [] k = "collection_metadata" -> DataQuality(raw)
DerivedValue(raw, k) ==
    LET pv_power == Get(raw, "pv_power", 0)
        battery_power == Get(raw, "battery_power", 0)
        load_power == Get(raw, "load_power", 0)
        soc == Get(raw, "battery_soc", 0)
    IN  CASE k = "energy_flow" ->
                IF pv_power > 0
                THEN IF battery_power > 0 THEN "pv_to_battery_and_load" ELSE "pv_to_load"
                ELSE IF battery_power < 0 THEN "battery_to_load" ELSE "grid_to_load"
          [] k = "power_balance" -> pv_power + battery_power - load_power
          [] k = "battery_status" ->
                IF soc > 90 THEN "full"
                ELSE IF soc > 50 THEN "good"
                ELSE IF soc > 20 THEN "low"
                ELSE "critical"
          [] k = "system_efficiency" ->
                Efficiency(Get(raw, "ac_power_output", 0), Get(raw, "ac_power_input", 0))
          [] k = "collection_metadata" -> DataQuality(raw)

\* _enhance_data: the copy of the raw mapping with the derived keys
EnhanceData(raw) ==
    [ k \in DOMAIN raw \cup DerivedKeys(raw) |->
        IF k \in DerivedKeys(raw) THEN DerivedValue(raw, k) ELSE raw[k] ]

\* collect_and_publish calls _enhance_data on what the sampler collected
Enhance ==
    /\ DOMAIN enhanced = {}
    /\ enhanced' = EnhanceData(raw_data)
    /\ reply' = "none"
    /\ UNCHANGED << raw_data, mqtt_connected, brokerVars, supVars, closed, codecVars, sampleVars, start_written,
                    command_history, responses, phase, connected, queueVars, dispVars,
                    busVars, loopVars >>

(***************************************************************************)
(* HealthMonitor                                                           *)
(***************************************************************************)
\* the keys of alerts_sent
AlertKeys == {"system_critical", "modbus_disconnected", "mqtt_disconnected", "consecutive_failures"}

\* the status _check_system_health returns in a check
SystemStatuses == {"healthy", "unhealthy", "critical"}

\* _on_disconnect / _on_connect of the MQTT client, called by its network loop
MqttDisconnect ==
    /\ phase = "running"
    /\ mqtt_connected
    /\ mqtt_connected' = FALSE
    /\ reply' = "none"
    /\ UNCHANGED << staticVars, command_history, responses, phase, connected,
                    queueVars, dispVars, busVars, loopVars >>

MqttConnect ==
    /\ phase = "running"
    /\ ~mqtt_connected
    /\ mqtt_connected' = TRUE
    /\ reply' = "none"
    /\ UNCHANGED << staticVars, command_history, responses, phase, connected,
                    queueVars, dispVars, busVars, loopVars >>

\* _check_modbus_health up to the probe: the transport is not connected
UnconnectedHealth ==
    [ status |-> "critical", issue |-> "none", connected |-> FALSE,
      consecutive_failures |-> 0 ]

\* _check_modbus_health up to the probe: health["consecutive_failures"] is
\* read from the transport before the probe read
ProbeHealth ==
    [ status |-> "healthy", issue |-> "none", connected |-> TRUE,
      consecutive_failures |-> cf ]

\* _check_modbus_health after the probe returned (ok: a value, otherwise
\* None; slow: it took more than 5 s): the test of health["consecutive_failures"]
\* comes last
ProbedHealth(h, ok, slow) ==
    LET h1 == IF ok
              THEN IF slow THEN [h EXCEPT !.status = "unhealthy", !.issue = "slow_response"]
                           ELSE h
              ELSE [h EXCEPT !.status = "unhealthy", !.issue = "read_failed"]
    IN  IF h.consecutive_failures >= MAX_CONSECUTIVE_FAILURES
        THEN [h1 EXCEPT !.status = "critical", !.issue = "too_many_failures"]
        ELSE h1

\* perform_health_check: overall_status from the three component statuses
Overall(mh, mq, sys) ==
    LET statuses == {mh.status, IF mq THEN "healthy" ELSE "critical", sys}
    IN  IF "critical" \in statuses THEN "critical"
        ELSE IF "unhealthy" \in statuses THEN "unhealthy"
        ELSE "healthy"

\* perform_health_check: HealthMonitor.consecutive_failures afterwards
NextHealthFailures(overall) ==
    IF overall = "healthy" THEN 0 ELSE consecutive_failures + 1

\* _process_health_alerts: the keys whose condition holds in this check
Triggered(overall, mh, mq, n) ==
    { k \in AlertKeys :
        \/ k = "system_critical" /\ overall = "critical"
        \/ k = "modbus_disconnected" /\ ~mh.connected
        \/ k = "mqtt_disconnected" /\ ~mq
        \/ k = "consecutive_failures" /\ n >= ALERT_FAILURES }

\* _process_health_alerts: the keys it discards when their condition does
\* not hold (there is no discard of system_critical)
Discarded == {"modbus_disconnected", "mqtt_disconnected", "consecutive_failures"}

\* perform_health_check after _check_modbus_health returned mh, with the
\* system status sys: the MQTT status, the overall status, the failure
\* counter, the alerts (_send_alert is called for the keys in emitted) and
\* the history entry
FinishCheck(mh, sys) ==
    LET overall == Overall(mh, mqtt_connected, sys)
        n == NextHealthFailures(overall)
        trig == Triggered(overall, mh, mqtt_connected, n)
    IN  /\ n <= MaxHealthFailures
        /\ consecutive_failures' = n
        /\ emitted' = trig \ alerts_sent
        /\ alerts_sent' = (alerts_sent \cup trig) \ (Discarded \ trig)
        /\ health_status' =
              [ timestamp |-> 1 - health_status.timestamp, overall_status |-> overall,
                modbus |-> mh, mqtt_connected |-> mqtt_connected ]
        /\ health' = NoHealth

\* health_check_loop -> perform_health_check, from its start to the
\* suspension in the probe read, or to its end when the transport is not
\* connected
SupervisorTick(sys) ==
    /\ phase = "running"
    /\ hpc = "sleep"
    /\ IF connected
       THEN /\ health' = ProbeHealth
            /\ CallOp("health")
            /\ hpc' = "probe"
            /\ emitted' = {}
            /\ UNCHANGED << alerts_sent, consecutive_failures, health_status >>
       ELSE /\ FinishCheck(UnconnectedHealth, sys)
            /\ UNCHANGED << tst, tatt, locked, waiters, hpc >>
    /\ reply' = "none"
    /\ UNCHANGED << mqtt_connected, brokerVars, closed, codecVars, enrichVars, sampleVars, start_written, command_history,
                    responses, phase, connected, queueVars, dispVars, cf, spc, sidx >>

\* the device answers the probe or the probe fails; after its last attempt
\* perform_health_check runs to its end
SupervisorResponse(ok, slow, sys) ==
    /\ tst["health"] = "onwire"
    /\ hpc = "probe"
    /\ NextCf("health", ok) <= MaxProbeFailures
    /\ cf' = NextCf("health", ok)
    /\ IF Outcome("health", ok) = "retry"
       THEN /\ tst' = [tst EXCEPT !["health"] = "retrysleep"]
            /\ emitted' = {}
            /\ UNCHANGED << tatt, locked, waiters, hpc, alerts_sent, consecutive_failures,
                            health, health_status >>
       ELSE /\ ReturnOp("health")
            /\ hpc' = "sleep"
            /\ FinishCheck(ProbedHealth(health, ok, slow), sys)
    /\ reply' = "none"
    /\ UNCHANGED << mqtt_connected, brokerVars, closed, codecVars, enrichVars, sampleVars, start_written, command_history,
                    responses, phase, connected, queueVars, dispVars, spc, sidx >>

\* lifespan after the yield: MQTTClient.disconnect, then
\* ModbusClient.disconnect (client.close(), connected = False); neither
\* suspends, and the tasks that lifespan started are neither cancelled nor
\* awaited
Shutdown ==
    /\ phase = "running"
    /\ phase' = "stopped"
    /\ mqtt_connected' = FALSE
    /\ connected' = FALSE
    /\ closed' = << "mqtt", "modbus" >>
    /\ reply' = "none"
    /\ UNCHANGED << brokerVars, supVars, codecVars, enrichVars, sampleVars, start_written, command_history, responses,
                    queueVars, dispVars, busVars, loopVars >>

Next ==
    \/ \E ok \in BOOLEAN : Startup(ok)
    \/ \E spec \in CmdSpecs : Submit(spec, NORMAL, MaxCmds)
    \/ \E id \in KnownIds : Cancel(id)
    \/ ClearQueue
    \/ DispatchStart
    \/ TimeoutFire
    \/ ExecStart
    \/ \E t \in Tasks : Acquire(t)
    \/ \E t \in Tasks : RetryWake(t)
    \/ \E ok \in BOOLEAN : ExecResponse(ok)
    \/ DispatchResume
    \/ ExecCancelled
    \/ SamplerTick
    \/ \E ok \in BOOLEAN : SamplerResponse(ok)
    \/ SamplerGap
    \/ HealthTick
    \/ \E ok \in BOOLEAN : HealthResponse(ok)

Spec == Init /\ [][Next]_vars

\* the queue, the dispatcher and the execution task for commands that need
\* no transport operation (their handlers end before the timeout can elapse),
\* submitted with any priority, while the sampler and the health check loop
\* sleep between two ticks
NextQ ==
    \/ Startup(TRUE)
    \/ \E spec \in QueueCmdSpecs, prio \in Priorities : Submit(spec, prio, MaxQueueCmds)
    \/ \E id \in KnownIds : Cancel(id)
    \/ ClearQueue
    \/ DispatchStart
    \/ ExecStart
    \/ DispatchResume

SpecQ == Init /\ [][NextQ]_vars

\* the interface of the queue: both ways of submitting, with room in the
\* queue and without, cancel_command, clear_queue and the dispatcher, for
\* commands that need no transport operation
NextApi ==
    \/ Startup(TRUE)
    \/ \E p \in ApiPayloads : Submit(HttpSpec(p), NORMAL, MaxApiCmds)
    \/ SubmitRejected
    \/ \E id \in SuppliedIds : SubmitMqtt(id, MqttSpec(RebootPayload), NORMAL, MaxApiCmds)
    \/ \E id \in KnownIds : Cancel(id)
    \/ \E id \in KnownIds \cup SuppliedIds : CancelMiss(id)
    \/ ClearQueue
    \/ DispatchStart
    \/ ExecStart
    \/ DispatchResume

SpecApi == Init /\ [][NextApi]_vars

\* the program without the health check loop, which competes for the bus
\* lock as the sampler does
NextLive ==
    \/ \E ok \in BOOLEAN : Startup(ok)
    \/ \E spec \in CmdSpecs : Submit(spec, NORMAL, MaxCmds)
    \/ \E id \in KnownIds : Cancel(id)
    \/ ClearQueue
    \/ DispatchStart
    \/ TimeoutFire
    \/ ExecStart
    \/ \E t \in {"exec", "sampler"} : Acquire(t)
    \/ \E t \in {"exec", "sampler"} : RetryWake(t)
    \/ \E ok \in BOOLEAN : ExecResponse(ok)
    \/ DispatchResume
    \/ ExecCancelled
    \/ SamplerTick
    \/ \E ok \in BOOLEAN : SamplerResponse(ok)
    \/ SamplerGap

\* the scheduling of the event loop: command_processor keeps iterating, a
\* task that is ready to run is run, and the timer of timeout_task elapses
\* unless the dispatch ends before
Fairness ==
    /\ WF_vars(DispatchStart)
    /\ WF_vars(ExecStart)
    /\ WF_vars(TimeoutFire)
    /\ WF_vars(DispatchResume)
    /\ WF_vars(ExecCancelled)

SpecLive == Init /\ [][NextLive]_vars /\ Fairness

\* commands from both inbound paths, POST /commands and the command topics
\* of the broker, and the dispatcher, for commands that need no transport
\* operation
NextBroker ==
    \/ Startup(TRUE)
    \/ \E p \in ApiPayloads : Submit(HttpSpec(p), NORMAL, MaxApiCmds)
    \/ \E id \in SuppliedIds, scheduled \in BOOLEAN : BrokerMessage(id, scheduled)
    \/ \E id \in SuppliedIds : HandleCommand(id, RebootPayload)
    \/ DispatchStart
    \/ ExecStart
    \/ DispatchResume

\* the event loop runs every task that is ready: the task of a received
\* message and the dispatcher
FairnessBroker ==
    /\ \A id \in SuppliedIds : WF_vars(HandleCommand(id, RebootPayload))
    /\ WF_vars(DispatchStart)
    /\ WF_vars(ExecStart)
    /\ WF_vars(DispatchResume)

SpecBroker == Init /\ [][NextBroker]_vars /\ FairnessBroker

\* the health check loop with its probe of the transport, the connection
\* to the broker coming and going, while the queue is empty and the sampler
\* sleeps between two ticks
NextSup ==
    \/ \E ok \in BOOLEAN : Startup(ok)
    \/ MqttDisconnect
    \/ MqttConnect
    \/ \E sys \in SystemStatuses : SupervisorTick(sys)
    \/ RetryWake("health")
    \/ \E ok \in BOOLEAN, slow \in BOOLEAN, sys \in SystemStatuses :
          SupervisorResponse(ok, slow, sys)

SpecSup == Init /\ [][NextSup]_vars

\* the typed accessor on every register of CodecRegisters and every content
\* of RawValues: the value is read and converted, then written back
InitCodec ==
    /\ InitProgram
    /\ EnricherIdle
    /\ register_def \in CodecRegisters
    /\ raw_values \in RawValues(RegisterDef(register_def).data_type)
    /\ value = << >>
    /\ scaled_value = << >>
    /\ write_result = "none"

NextCodec ==
    \/ ReadRegisterByName
    \/ WriteRegisterByName

SpecCodec == InitCodec /\ [][NextCodec]_vars

\* write_register_by_name for every name of WriteNames and every value of
\* CallerValues, on a transport that the sampler uses as well
InitWrite ==
    /\ InitProgram
    /\ EnricherIdle
    /\ register_def \in WriteNames
    /\ raw_values = << >>
    /\ value \in { << v >> : v \in CallerValues }
    /\ scaled_value = << >>
    /\ write_result = "none"

NextWrite ==
    \/ \E ok \in BOOLEAN : Startup(ok)
    \/ WriteCall
    \/ \E t \in {"exec", "sampler"} : Acquire(t)
    \/ \E t \in {"exec", "sampler"} : RetryWake(t)
    \/ \E ok \in BOOLEAN : WriteResponse(ok)
    \/ SamplerTick
    \/ \E ok \in BOOLEAN : SamplerResponse(ok)
    \/ SamplerGap

SpecWrite == InitWrite /\ [][NextWrite]_vars

\* the sampler loop with the outcome of each of its ticks, on a transport
\* it shares with the health check loop, the connection to the broker
\* coming and going
NextSample ==
    \/ \E ok \in BOOLEAN : Startup(ok)
    \/ MqttDisconnect
    \/ MqttConnect
    \/ CollectAndPublish
    \/ \E t \in {"sampler", "health"} : Acquire(t)
    \/ \E t \in {"sampler", "health"} : RetryWake(t)
    \/ \E ok \in BOOLEAN : CollectResponse(ok)
    \/ \E rc_ok \in BOOLEAN : CollectGap(rc_ok)
    \/ HealthTick
    \/ \E ok \in BOOLEAN : HealthResponse(ok)

\* the timers of the loops elapse, a caller that can take the bus lock does,
\* and a request to the device ends (with an answer, an error or the
\* client's timeout)
FairnessSample ==
    /\ WF_vars(CollectAndPublish)
    /\ \A t \in {"sampler", "health"} : WF_vars(Acquire(t)) /\ WF_vars(RetryWake(t))
    /\ WF_vars(\E ok \in BOOLEAN : CollectResponse(ok))
    /\ WF_vars(\E rc_ok \in BOOLEAN : CollectGap(rc_ok))
    /\ WF_vars(\E ok \in BOOLEAN : HealthResponse(ok))

SpecSample == Init /\ [][NextSample]_vars /\ FairnessSample

\* the enricher on every raw mapping of RawInputs
InitEnrich ==
    /\ InitProgram
    /\ CodecIdle
    /\ raw_data \in RawInputs
    /\ enhanced = << >>

NextEnrich == Enhance

SpecEnrich == InitEnrich /\ [][NextEnrich]_vars

\* the queue, the dispatcher and the execution task up to and after the
\* shutdown of the process: the event loop runs the tasks as long as it
\* lives
NextStop ==
    \/ Startup(TRUE)
    \/ \E spec \in CmdSpecs : Submit(spec, NORMAL, MaxCmds)
    \/ DispatchStart
    \/ TimeoutFire
    \/ ExecStart
    \/ RetryWake("exec")
    \/ \E ok \in BOOLEAN : ExecResponse(ok)
    \/ DispatchResume
    \/ ExecCancelled
    \/ Shutdown

SpecStop == Init /\ [][NextStop]_vars

(***************************************************************************)
(* Properties                                                              *)
(***************************************************************************)
StatusIs(c, st) == cmds[c].status = st

ProcessingCmds == { c \in CmdIds : StatusIs(c, "processing") }

BusyTasks == { t \in Tasks : tst[t] \in Busy }

\* C1: in every reachable state at most one command has status Processing
C1_AtMostOneProcessing == Cardinality(ProcessingCmds) <= 1

\* a command is Processing while another one, dispatched before and
\* re-queued or timed out, is not
C1_Witness ==
    \E c, d \in CmdIds :
        /\ c # d
        /\ StatusIs(c, "processing")
        /\ StatusIs(d, "timeout")
        /\ tst["sampler"] \in Busy

\* C2: no two transport operations overlap: at most one caller is between
\* its first on-wire attempt and the return of its operation
C2_NoTransportOverlap == Cardinality(BusyTasks) <= 1

\* one caller sleeps between two attempts of its operation while the two
\* others wait for the bus lock
C2_Witness ==
    \E t \in Tasks :
        /\ tst[t] = "retrysleep"
        /\ \A u \in Tasks \ {t} : tst[u] = "waitlock"

\* C3 as stated: while a command is Processing the sampler performs no
\* register read on the transport
C3_NoSamplerReadWhileProcessing ==
    ProcessingCmds # {} => tst["sampler"] \notin Busy

\* C3 amended: while a transport operation of the dispatched command is
\* between its first on-wire attempt and its return, the sampler performs no
\* register read on the transport
C3_NoSamplerReadDuringCommandOp ==
    tst["exec"] \in Busy => tst["sampler"] \notin Busy

\* the sampler waits for the bus lock that the Processing command's
\* operation holds
C3_Witness ==
    /\ ProcessingCmds # {}
    /\ tst["exec"] \in Busy
    /\ tst["sampler"] = "waitlock"

\* the execution task of a schedule command is between its two writes: the
\* start write has returned and the end write waits for the bus lock
ScheduleGap ==
    /\ epc = "op_last"
    /\ cmds[dcmd].kind = "set_charge_schedule"
    /\ tst["exec"] = "waitlock"

\* position of caller t among the waiters of the bus lock (0: not waiting)
WaitPos(t) ==
    IF \E i \in 1..Len(waiters) : waiters[i] = t
    THEN CHOOSE i \in 1..Len(waiters) : waiters[i] = t
    ELSE 0

\* C4 as stated: no other transport operation is executed between the write
\* of the start register and the write of the end register of a schedule
\* command
C4_NothingBetweenScheduleWrites ==
    ScheduleGap => \A t \in Tasks \ {"exec"} : tst[t] \notin Busy

\* C4 amended: the end write is issued in the step in which the start write
\* returns unless a caller waits for the bus lock at that moment, and a
\* transport operation is started between the two writes only by a caller
\* (the sampler or the supervisor) that waited for the bus lock before the
\* end write did
C4_OnlyWaitersBetweenScheduleWrites ==
    [][ /\ ( /\ epc = "op_first"
             /\ epc' = "op_last"
             /\ waiters = << >> ) => tst'["exec"] = "onwire"
        /\ \A t \in Tasks \ {"exec"} :
             ( /\ ScheduleGap
               /\ tst[t] \notin Busy
               /\ tst'[t] \in Busy ) =>
                  /\ WaitPos(t) > 0
                  /\ WaitPos(t) < WaitPos("exec") ]_vars

\* the sampler reads between the two writes of a schedule command
C4_Witness ==
    /\ ScheduleGap
    /\ tst["sampler"] = "onwire"

\* C5: once a command is Completed, Failed, TimedOut or Cancelled its
\* status, result, error and attempts never change
C5_TerminalNeverMutated ==
    [][ \A c \in CmdIds :
          cmds[c].status \in Terminal =>
             /\ cmds'[c].status = cmds[c].status
             /\ cmds'[c].result = cmds[c].result
             /\ cmds'[c].error = cmds[c].error
             /\ cmds'[c].attempts = cmds[c].attempts ]_vars

\* C6: a command whose accessor call failed (the read returned None, the
\* write returned False) is not Completed
C6_FailedCallNeverCompleted ==
    \A c \in CmdIds :
        StatusIs(c, "completed") => cmds[c].result \in {"Value", "True"}

\* C7: attempts <= retry_count for every command, and Failed implies
\* attempts = retry_count
C7_RetryBound ==
    \A c \in CmdIds :
        /\ cmds[c].attempts <= RETRY_COUNT
        /\ StatusIs(c, "failed") => cmds[c].attempts = RETRY_COUNT

\* a command failed for good after its last attempt while another one is
\* back in the queue after a failed attempt
C7_Witness ==
    \E c, d \in CmdIds :
        /\ StatusIs(c, "failed")
        /\ cmds[c].attempts = RETRY_COUNT
        /\ StatusIs(d, "pending")
        /\ cmds[d].attempts = RETRY_COUNT - 1

\* command b is marked Processing in this step
Dispatched(b) == cmds[b].status = "pending" /\ cmds'[b].status = "processing"

\* C8: when a Pending command is dispatched, no command of strictly higher
\* priority is Pending
C8_PriorityOrder ==
    [][ \A b \in CmdIds :
          Dispatched(b) =>
             \A a \in CmdIds :
                StatusIs(a, "pending") => cmds[a].priority <= cmds[b].priority ]_vars

\* Normal A, Critical B, Normal C were submitted in this order; B was
\* dispatched first, A is Processing in its first dispatch and C still waits
C8_Witness ==
    /\ Len(cmds) = 3
    /\ cmds[1].priority = NORMAL /\ cmds[2].priority = CRITICAL /\ cmds[3].priority = NORMAL
    /\ StatusIs(2, "completed") /\ cmds[2].attempts = 1
    /\ StatusIs(1, "processing") /\ cmds[1].attempts = 1
    /\ StatusIs(3, "pending") /\ cmds[3].attempts = 0 /\ queue = << 3 >>

\* C9: when a Pending command that was never dispatched is dispatched, no
\* command of the same priority that was submitted before it is still
\* Pending and never dispatched
C9_FifoWithinBand ==
    [][ \A b \in CmdIds :
          (Dispatched(b) /\ cmds[b].attempts = 0) =>
             \A a \in 1..(b - 1) :
                ~ ( /\ StatusIs(a, "pending")
                    /\ cmds[a].attempts = 0
                    /\ cmds[a].priority = cmds[b].priority ) ]_vars

\* of three commands of one priority, all submitted before any dispatch,
\* the first is done, the second is Processing and the third waits
C9_Witness ==
    /\ Len(cmds) = 3
    /\ cmds[1].priority = cmds[2].priority /\ cmds[2].priority = cmds[3].priority
    /\ cmds[1].status \in Terminal /\ cmds[1].attempts = 1
    /\ StatusIs(2, "processing") /\ cmds[2].attempts = 1
    /\ StatusIs(3, "pending") /\ cmds[3].attempts = 0

\* command c is re-queued for a retry in this step
Requeued(c) == cmds[c].status = "processing" /\ cmds'[c].status = "pending"

\* C10: a command re-queued for a retry keeps its priority and is placed
\* behind every queued command of the same or a higher priority and ahead of
\* every queued command of lower priority; the dispatcher takes the head of
\* the queue, so the peers ahead of it are dispatched before it
C10_RetryAtTailOfBand ==
    [][ /\ \A c \in CmdIds :
             Requeued(c) =>
                /\ cmds'[c].priority = cmds[c].priority
                /\ \E k \in 1..Len(queue') :
                      /\ queue'[k] = c
                      /\ RemoveAt(queue', k) = queue
                      /\ \A i \in 1..(k - 1) :
                            cmds[queue'[i]].priority >= cmds[c].priority
                      /\ \A i \in (k + 1)..Len(queue') :
                            cmds[queue'[i]].priority < cmds[c].priority
        /\ \A b \in CmdIds :
             Dispatched(b) => (queue # << >> /\ b = Head(queue) /\ queue' = Tail(queue)) ]_vars

\* a re-queued command sits behind a later-submitted peer of its priority
\* and ahead of a command of lower priority
C10_Witness ==
    /\ Len(queue) = 3
    /\ cmds[queue[2]].attempts = 1
    /\ StatusIs(queue[2], "pending")
    /\ cmds[queue[1]].priority = cmds[queue[2]].priority
    /\ cmds[queue[1]].attempts = 0
    /\ queue[1] > queue[2]
    /\ cmds[queue[3]].priority < cmds[queue[2]].priority

\* command c gets status TimedOut in this step
TimesOut(c) == cmds[c].status # "timeout" /\ cmds'[c].status = "timeout"

\* C11: a command whose timeout task completed in a dispatch is TimedOut
\* when the dispatch ends, is not in the queue, and from then on keeps its
\* status and is never dispatched again
C11_TimedOutIsTerminal ==
    [][ /\ (dpc = "wait" /\ tmo = "fired" /\ dpc' = "loop") =>
               /\ cmds'[dcmd].status = "timeout"
               /\ QueuePos(queue', cmds', cmds[dcmd].id) = 0
        /\ \A c \in CmdIds :
               StatusIs(c, "timeout") =>
                  /\ cmds'[c].status = "timeout"
                  /\ cmds'[c].attempts = cmds[c].attempts
                  /\ \A i \in 1..Len(queue') : queue'[i] # c ]_vars

\* a command was Completed by its execution task, became TimedOut when the
\* dispatch ended, and the next command is being processed
C11_Witness ==
    \E c, d \in CmdIds :
        /\ StatusIs(c, "timeout")
        /\ cmds[c].result = "True"
        /\ StatusIs(d, "processing")

\* C12: when a command times out the dispatcher is idle (no current command,
\* processing false), and a command that is Pending while some command is
\* TimedOut is eventually dispatched (or cancelled by a caller)
C12_IdleAfterTimeout ==
    /\ [][ (\E c \in CmdIds : TimesOut(c)) =>
               (current_command' = 0 /\ ~processing') ]_vars
    /\ \A d \in 1..MaxCmds :
          ( /\ d \in CmdIds
            /\ StatusIs(d, "pending")
            /\ \E c \in CmdIds : StatusIs(c, "timeout") )
          ~> (d \in CmdIds /\ ~StatusIs(d, "pending"))

\* a command submitted behind one that timed out has been dispatched
C12_Witness ==
    \E c, d \in CmdIds :
        /\ c < d
        /\ StatusIs(c, "timeout")
        /\ cmds[c].result = "None"
        /\ StatusIs(d, "processing")
        /\ processing

\* the execution task is inside a transport call
ExecLive == epc \in {"op_first", "op_last", "cancelling"}

\* C13 as stated: a request/retry cycle of the execution task that is in
\* flight ends only by its normal return, with consecutive_failures reset or
\* incremented, never by the cancellation; and the cancelled handler puts no
\* request on the wire
C13_InFlightCycleCompletes ==
    [][ /\ (tst["exec"] \in Busy /\ tst'["exec"] \notin Busy) =>
               /\ tst["exec"] = "onwire"
               /\ epc # "cancelling"
               /\ cf' = 0 \/ cf' = cf + 1
        /\ (epc = "cancelling" /\ tst["exec"] # "onwire") =>
               tst'["exec"] # "onwire" ]_vars

\* C14: the bus lock is held only by a caller that is inside a transport
\* operation and still runs, every waiter for the lock still runs, and a
\* stopped execution task neither holds the lock nor waits for it
C14_CancelFreesBusLock ==
    /\ locked <=> \E t \in Tasks : tst[t] \in Busy
    /\ \A t \in Tasks : (tst[t] = "waitlock") <=> (WaitPos(t) > 0)
    /\ tst["exec"] # "idle" => ExecLive
    /\ epc \in {"none", "start", "done"} => tst["exec"] = "idle"

\* the execution task of a command that timed out before it completed has
\* stopped; the sampler holds the bus lock and the health probe waits
C14_Witness ==
    /\ \E c \in CmdIds : StatusIs(c, "timeout") /\ cmds[c].result = "None"
    /\ epc = "none"
    /\ tst["exec"] = "idle"
    /\ tst["sampler"] = "onwire"
    /\ tst["health"] = "waitlock"

\* a step in which add_command or add_mqtt_command returned or raised
SubmitCall == reply' \in {"command_id", "QueueFull"}

\* C15 as stated: a submission made while the queue is full gives its caller
\* the QueueFull error and changes neither the queue nor the history
C15_FullQueueRejects ==
    [][ (QueueFull(queue) /\ SubmitCall) =>
           /\ reply' = "QueueFull"
           /\ queue' = queue
           /\ cmds' = cmds
           /\ command_history' = command_history ]_vars

\* get_command_status(id): the history entry under this id (0: None)
StatusOf(id) == IF id \in DOMAIN command_history THEN command_history[id] ELSE 0

\* C16 as stated: every accepted command is retrievable under its own id,
\* and the entry under its id is this command
C16_HistoryRetainsAll ==
    \A c \in CmdIds : StatusOf(cmds[c].id) = c

\* C17: a cancel_command that returns True has marked one queued, Pending
\* command Cancelled and removed it from the queue; one that returns False
\* has changed nothing; no command that is Processing or terminal ever
\* becomes Cancelled; and every Pending command is in the queue, where
\* cancel_command finds its id
C17_CancelPendingOnly ==
    [][ /\ reply' = "True" =>
               \E i \in 1..Len(queue) :
                  /\ cmds[queue[i]].status = "pending"
                  /\ cmds' = [cmds EXCEPT ![queue[i]].status = "cancelled"]
                  /\ queue' = RemoveAt(queue, i)
                  /\ UNCHANGED << current_command, dispVars, command_history >>
        /\ reply' = "False" =>
               UNCHANGED << cmds, queue, current_command, dispVars, command_history >>
        /\ \A c \in CmdIds :
               (cmds[c].status # "pending" /\ cmds'[c].status = "cancelled") =>
                  cmds[c].status = "cancelled"
        /\ \A c \in CmdIds :
               StatusIs(c, "pending") => QueuePos(queue, cmds, cmds[c].id) > 0 ]_vars

\* cancel_command of the Processing command's id has just returned False,
\* after a cancel_command of a queued command
C17_Witness ==
    /\ reply = "False"
    /\ \E c, d \in CmdIds :
          /\ StatusIs(c, "processing")
          /\ current_command = c
          /\ StatusIs(d, "cancelled")

\* C18: clear_queue marks every Pending command Cancelled and leaves the
\* queue empty; the Processing command, the current-command slot, the
\* dispatcher and every terminal command are as before
C18_ClearCancelsPendingOnly ==
    [][ ClearQueue =>
           /\ queue' = << >>
           /\ \A c \in CmdIds :
                  IF StatusIs(c, "pending")
                  THEN cmds'[c] = [cmds[c] EXCEPT !.status = "cancelled"]
                  ELSE cmds'[c] = cmds[c]
           /\ \A c \in CmdIds : cmds'[c].status # "pending"
           /\ UNCHANGED << current_command, dispVars, command_history >> ]_vars

\* two commands were cancelled before their first dispatch while a third
\* one is Processing, and the queue is empty
C18_Witness ==
    /\ queue = << >>
    /\ \E c, d, e \in CmdIds :
          /\ d # e
          /\ StatusIs(c, "processing") /\ current_command = c
          /\ StatusIs(d, "cancelled") /\ cmds[d].attempts = 0
          /\ StatusIs(e, "cancelled") /\ cmds[e].attempts = 0

\* C19 as stated: a command that is Failed or TimedOut has its error
\* recorded, and a response with its command id is eventually published on
\* the commands/response topic
C19_TerminalErrorsPublished ==
    /\ [](\A c \in CmdIds :
             cmds[c].status \in {"failed", "timeout"} => cmds[c].error # "None")
    /\ \A c \in 1..MaxCmds :
          (c \in CmdIds /\ cmds[c].status \in {"failed", "timeout"})
          ~> (c \in CmdIds /\ cmds[c].id \in responses)

\* command c was submitted by POST /commands with the payload of scenario S1
FromReadPayload(c) ==
    /\ cmds[c].kind = HttpSpec(ReadPayload).kind
    /\ cmds[c].register = HttpSpec(ReadPayload).register

\* C20 as stated: on a connected transport a read_register command submitted
\* with the payload {command_type: "read_register", data: {register:
\* "battery_soc"}} ends Completed with the decoded register value as result
C20_ReadCommandGivesValue ==
    \A c \in CmdIds :
        (connected /\ FromReadPayload(c) /\ cmds[c].status \in Terminal \ {"cancelled"}) =>
           (StatusIs(c, "completed") /\ cmds[c].result = "Value")

\* the transport operation of caller t returns to its caller in this step
\* (the execution task leaves its first write when it enters the second)
Returns(t) ==
    /\ tst[t] = "onwire"
    /\ ~(t = "exec" /\ epc = "cancelling")
    /\ tst'[t] \notin Busy \/ (t = "exec" /\ epc = "op_first" /\ epc' = "op_last")

\* C26: an attempt that fails before the last one leaves
\* consecutive_failures as it is; a transport operation returns either with
\* consecutive_failures = 0 (an attempt succeeded) or with the counter
\* incremented by exactly one after exactly retry_count on-wire attempts;
\* the write of a command gave True in the first case and False in the
\* second; and nothing else changes the counter
C26_FailureCounter ==
    [][ /\ \A t \in Tasks :
              /\ (tst[t] = "onwire" /\ tst'[t] = "retrysleep") =>
                    (cf' = cf /\ tatt[t] + 1 < MODBUS_RETRY_COUNT)
              /\ Returns(t) =>
                    \/ cf' = 0
                    \/ cf' = cf + 1 /\ tatt[t] + 1 = MODBUS_RETRY_COUNT
        /\ (Returns("exec") /\ epc = "op_last") =>
              /\ cmds'[dcmd].result = "True" => cf' = 0
              /\ cmds'[dcmd].result = "False" =>
                    (cf' = cf + 1 /\ tatt["exec"] + 1 = MODBUS_RETRY_COUNT)
        /\ cf' # cf => \E t \in Tasks : Returns(t) ]_vars

\* the last write of a command failed on all of its attempts, which left
\* consecutive_failures incremented once, after an earlier operation had
\* succeeded
C26_Witness ==
    /\ connected
    /\ cf = 1
    /\ \A t \in Tasks : tst[t] = "idle"
    /\ \E c, d \in CmdIds :
          /\ StatusIs(c, "completed") /\ cmds[c].result = "True"
          /\ StatusIs(d, "completed") /\ cmds[d].result = "False"
          /\ c < d

\* C27: from the first attempt of a transport operation to its return the
\* bus lock is held and no other caller has a request on the wire, the
\* sleeps between the attempts included: a caller inside its retry cycle
\* leaves it only by the return of the operation (or by its cancellation),
\* and goes from a sleep to its next attempt without releasing the lock
C27_LockHeldThroughRetryCycle ==
    [][ \A t \in Tasks :
          /\ tst'[t] \in Busy =>
                /\ locked'
                /\ \A u \in Tasks \ {t} : tst'[u] \notin Busy
          /\ (tst[t] \in Busy /\ tst'[t] \notin Busy) =>
                (Returns(t) \/ (t = "exec" /\ epc = "cancelling"))
          /\ (tst[t] = "retrysleep" /\ tst'[t] = "onwire") =>
                (locked /\ locked' /\ tatt'[t] = tatt[t] + 1 /\ waiters' = waiters) ]_vars

\* the sampler has its third attempt on the wire while the execution task
\* and the health probe have been waiting for the bus lock
C27_Witness ==
    /\ tst["sampler"] = "onwire"
    /\ tatt["sampler"] = MODBUS_RETRY_COUNT - 1
    /\ locked
    /\ Len(waiters) = 2

\* C28: a transport operation invoked while the transport is not connected
\* returns False (None for a read) in the step of the call: the bus lock is
\* not acquired, nobody is made to wait, no request is put on the wire, no
\* retry sleep is entered and consecutive_failures is as before (the
\* execution task is the only caller that invokes an operation without
\* testing is_connected first)
C28_UnconnectedFailsImmediately ==
    [][ ( /\ ~connected
          /\ epc = "start"
          /\ Accepted(cmds[dcmd])
          /\ epc' # "start" ) =>
             /\ epc' = "done"
             /\ cmds'[dcmd].result = OpResult(cmds[dcmd].kind, FALSE)
             /\ UNCHANGED << tst, tatt, locked, waiters, cf >> ]_vars

\* both writes of a schedule command returned False at once on a transport
\* that never connected: the command is resolved, the bus lock is free and
\* consecutive_failures is 0
C28_Witness ==
    /\ phase = "running"
    /\ ~connected
    /\ ~locked
    /\ cf = 0
    /\ \E c \in CmdIds :
          /\ cmds[c].kind = "set_charge_schedule"
          /\ cmds[c].status \in Terminal
          /\ cmds[c].result = "False"

\* C29: the attempts counter of a command changes only in the step that
\* dispatches it, and then by exactly one; in particular no attempt, retry
\* sleep or return of a transport operation changes it, and a command whose
\* last operation succeeds on the third on-wire attempt of its first
\* dispatch is Completed with attempts = 1
C29_AttemptsCountDispatches ==
    [][ /\ \A c \in CmdIds :
              IF Dispatched(c)
              THEN cmds'[c].attempts = cmds[c].attempts + 1
              ELSE cmds'[c].attempts = cmds[c].attempts
        /\ ( /\ Returns("exec")
              /\ epc = "op_last"
              /\ tatt["exec"] = MODBUS_RETRY_COUNT - 1
              /\ cmds[dcmd].attempts = 1
              /\ cf' = 0 ) =>
                 /\ cmds'[dcmd].status = "completed"
                 /\ cmds'[dcmd].result = "True"
                 /\ cmds'[dcmd].attempts = 1 ]_vars

\* the last write of a command is on the wire for the third time in the
\* command's first dispatch
C29_Witness ==
    /\ epc = "op_last"
    /\ tst["exec"] = "onwire"
    /\ tatt["exec"] = MODBUS_RETRY_COUNT - 1
    /\ cmds[dcmd].attempts = 1
    /\ StatusIs(dcmd, "processing")

\* C25 as stated: once the process shuts down no command is dispatched any
\* more; the transport is disconnected only when no command is Processing;
\* and the transport is the last component closed
C25_ShutdownOrder ==
    [][ /\ phase = "stopped" => \A c \in CmdIds : ~Dispatched(c)
        /\ (connected /\ ~connected') => ProcessingCmds = {}
        /\ closed' # << >> => closed'[Len(closed')] = "modbus" ]_vars

\* C21 as stated: every command message received on a command topic is
\* submitted to the queue: its command_id eventually is in the history of
\* the queue, unless the queue is full
C21_BrokerCommandSubmitted ==
    \A id \in SuppliedIds :
        (id \in received) ~> (id \in DOMAIN command_history \/ QueueFull(queue))

\* a health check ends in this step
CheckEnds == health_status'.timestamp # health_status.timestamp

\* the condition of alert key k held in the check that produced hs and left
\* HealthMonitor.consecutive_failures = n (in no check, before the first)
Raised(k, hs, n) ==
    /\ hs.overall_status # "none"
    /\ k \in Triggered(hs.overall_status, hs.modbus, hs.mqtt_connected, n)

\* C22 as stated: a check sends the alert of a key exactly if the key's
\* condition holds in this check and did not hold in the check before: one
\* alert per maximal run of checks in which the condition holds, and an
\* alert again when the condition is raised after it had ceased
C22_AlertEdge ==
    [][ CheckEnds =>
           \A k \in AlertKeys :
              (k \in emitted') <=>
                 ( /\ Raised(k, health_status', consecutive_failures')
                   /\ ~Raised(k, health_status, consecutive_failures) ) ]_vars

\* C30 as stated: for a connected transport the transport sub-check gives
\* Critical(too_many_failures) exactly if the transport's
\* consecutive_failures is >= max_consecutive_failures when the sub-check
\* returns, that is after the probe read
C30_TooManyFailuresAtReturn ==
    [][ (CheckEnds /\ health_status'.modbus.connected) =>
           ( ( /\ health_status'.modbus.status = "critical"
               /\ health_status'.modbus.issue = "too_many_failures" )
             <=> cf' >= MAX_CONSECUTIVE_FAILURES ) ]_vars

\* C23 as stated: _enhance_data returns a mapping for every raw mapping, and
\* a derived field is absent from it whenever one of its inputs is absent
\* from the raw mapping
C23_DerivedOmittedOnAbsentInput ==
    DOMAIN enhanced # {} =>
       /\ "energy_flow" \in DOMAIN enhanced =>
             {"pv_power", "battery_power"} \subseteq DOMAIN raw_data
       /\ "power_balance" \in DOMAIN enhanced =>
             {"pv_power", "battery_power", "load_power"} \subseteq DOMAIN raw_data
       /\ "battery_status" \in DOMAIN enhanced =>
             "battery_soc" \in DOMAIN raw_data
       /\ "system_efficiency" \in DOMAIN enhanced =>
             {"ac_power_input", "ac_power_output"} \subseteq DOMAIN raw_data

\* C24 as stated: the word written for the value that was read from a
\* catalog register is the word that was read (encode(decode(x)) = x, the
\* registers of scale 0.1 and 0.01 included), and the INT16 and INT32
\* conversions read the words in two's complement: a word (pair) from
\* 0x8000 (0x80000000) on is negative, and without scaling its value is
\* the word (pair) minus 2^16 (2^32)
C24_CodecRoundTrip ==
    LET def == RegisterDef(register_def)
    IN  /\ (scaled_value # << >> /\ def.catalog) => scaled_value = raw_values
        /\ (value # << >> /\ def.data_type = "int16") =>
               /\ raw_values[1] >= 32768 => value[1] <= 0
               /\ raw_values[1] < 32768 => value[1] >= 0
               /\ def.per_unit = 1 =>
                     value[1] = IF raw_values[1] >= 32768 THEN raw_values[1] - 65536
                                                          ELSE raw_values[1]
        /\ (value # << >> /\ def.data_type = "int32") =>
               /\ raw_values[1] >= 32768 => value[1] < 0
               /\ raw_values[1] < 32768 => value[1] >= 0
               /\ (def.per_unit = 1 /\ raw_values[1] = 65535) =>
                     value[1] = raw_values[2] - 65536

\* the sample that was enriched carries the three power readings
PowerReadings == {"pv_power", "battery_power", "load_power"} \subseteq DOMAIN raw_data

\* the energy_flow the specification gives for these readings
EnergyFlow(pv, bat) ==
    CASE pv > 0 /\ bat > 0   -> "pv_to_battery_and_load"
      [] pv > 0 /\ bat <= 0  -> "pv_to_load"
      [] pv <= 0 /\ bat < 0  -> "battery_to_load"
      [] OTHER               -> "grid_to_load"

\* C31: for every pv_power and battery_power the enriched sample carries
\* energy_flow = pv_to_battery_and_load if both are positive, pv_to_load if
\* pv_power > 0 and battery_power <= 0, battery_to_load if pv_power <= 0 and
\* battery_power < 0, grid_to_load otherwise, and power_balance =
\* pv_power + battery_power - load_power
C31_EnergyFlowAndBalance ==
    (DOMAIN enhanced # {} /\ PowerReadings) =>
        /\ enhanced["energy_flow"] = EnergyFlow(raw_data["pv_power"], raw_data["battery_power"])
        /\ enhanced["power_balance"] =
              raw_data["pv_power"] + raw_data["battery_power"] - raw_data["load_power"]

\* the sample of scenario S6 was enriched: pv 1200, battery -400, load 900
\* give pv_to_load and -100
C31_Witness ==
    /\ DOMAIN enhanced # {}
    /\ PowerReadings
    /\ raw_data["pv_power"] = 1200
    /\ raw_data["battery_power"] = -400
    /\ raw_data["load_power"] = 900
    /\ enhanced["energy_flow"] = "pv_to_load"
    /\ enhanced["power_balance"] = -100

\* C32 as stated: the value write_register_by_name puts on the wire for a
\* UINT16 register is in 0..65535, and for an INT16 register in
\* -32768..32767 or its 16-bit word: a value whose scaled result is outside
\* the range of the type is never sent
C32_WrittenWordInRange ==
    (tst["exec"] = "onwire" /\ register_def \in CodecRegisters) =>
        /\ RegisterDef(register_def).data_type = "uint16" =>
              scaled_value[1] \in 0..65535
        /\ RegisterDef(register_def).data_type = "int16" =>
              scaled_value[1] \in -32768..65535

\* the register named in the call is not in the catalog, is not writable,
\* or has a type of two words
Unwritable ==
    \/ register_def \notin CodecRegisters
    \/ ~RegisterDef(register_def).writable
    \/ RegisterDef(register_def).data_type \in {"uint32", "int32"}

\* write_register_by_name takes a step: it is called, or it returns
WriteSteps ==
    \/ write_result' # write_result
    \/ scaled_value' # scaled_value
    \/ tst'["exec"] # tst["exec"]

\* C33: write_register_by_name on a register that is not writable, not in
\* the catalog or wider than 16 bits returns False in the step of the call,
\* issues no on-wire operation, does not acquire or wait for the bus lock
\* and leaves consecutive_failures as it is
C33_RejectedWriteTouchesNothing ==
    [][ (Unwritable /\ WriteSteps) =>
            /\ write_result' = "False"
            /\ scaled_value' = << >>
            /\ UNCHANGED << tst, tatt, locked, waiters, cf >> ]_vars

\* a write to a read-only register was rejected while the sampler held the
\* bus lock on a connected transport
C33_Witness ==
    /\ register_def = "battery_current"
    /\ write_result = "False"
    /\ connected
    /\ tst["sampler"] \in Busy
    /\ locked

\* the commands whose command_type has no branch in _execute_command
UnknownCmds == { c \in CmdIds : cmds[c].kind \notin CommandTypes }

\* what every dispatch of a command of unknown type does: no transport
\* operation while it is the dispatched command, and once a dispatch has
\* ended the error that names its type is recorded
UnknownCommandDispatch(c) ==
    /\ dcmd = c => tst["exec"] = "idle"
    /\ (cmds[c].attempts >= 1 /\ ~StatusIs(c, "processing")) =>
           cmds[c].error = "Unknown command type: " \o cmds[c].kind

\* C34 as stated: a dispatched command of unknown type produces the error
\* naming its type, issues no transport operation in any of its dispatches,
\* and ends Failed with that error recorded
C34_UnknownCommandEndsFailed ==
    \A c \in UnknownCmds :
        /\ UnknownCommandDispatch(c)
        /\ (cmds[c].attempts >= 1 /\ cmds[c].status \in Terminal) => StatusIs(c, "failed")

\* C34 amended: ... and ends Failed with that error recorded after its last
\* attempt, unless it is cancelled while it waits in the queue for its next
\* attempt; it never ends Completed or TimedOut
C34_UnknownCommandFailsOrIsCancelled ==
    \A c \in UnknownCmds :
        /\ UnknownCommandDispatch(c)
        /\ (cmds[c].attempts >= 1 /\ cmds[c].status \in Terminal) =>
               /\ cmds[c].status \in {"failed", "cancelled"}
               /\ StatusIs(c, "failed") => cmds[c].attempts = RETRY_COUNT
               /\ StatusIs(c, "cancelled") => cmds[c].attempts < RETRY_COUNT

\* a command of unknown type is Failed after its last attempt with the
\* error recorded, and another one was cancelled between two attempts
C34_Witness ==
    \E c, d \in UnknownCmds :
        /\ StatusIs(c, "failed")
        /\ cmds[c].attempts = RETRY_COUNT
        /\ cmds[c].error = "Unknown command type: reboot"
        /\ StatusIs(d, "cancelled")
        /\ cmds[d].attempts >= 1

\* C35: the sampler loop never terminates: whatever a tick does (the
\* transport is not connected, all reads fail, the publish fails), a later
\* tick is executed
C35_SamplerLoopNeverEnds ==
    /\ [](spc \in {"sleep", "read", "gap"})
    /\ \A b \in {0, 1} : (phase = "running" /\ tick = b) ~> (tick = 1 - b)

\* a tick is under way after a tick that collected nothing
C35_Witness ==
    /\ tick_result = "no_data"
    /\ spc = "read"
    /\ tst["sampler"] = "onwire"

\* C36 as stated: after any sequence of submit, dispatch, failure with
\* re-insertion, timeout, cancel and clear, the pending sequence is never
\* longer than MAX_QUEUE_SIZE
C36_QueueWithinLimit == Len(queue) <= MaxQueueSize

\* the commands in the pending sequence
Queued == { queue[i] : i \in 1..Len(queue) }

\* C37: every command in the pending sequence is Pending and is in it
\* exactly once, and every command of the history that is Pending is in the
\* pending sequence; no Processing or terminal command is in the sequence
C37_QueueHoldsThePending ==
    /\ \A c \in Queued : StatusIs(c, "pending")
    /\ \A i, j \in 1..Len(queue) : queue[i] = queue[j] => i = j
    /\ \A id \in DOMAIN command_history :
          StatusIs(command_history[id], "pending") => command_history[id] \in Queued

\* a command is back in the queue after a failed attempt while another
\* command, which timed out, is not
C37_Witness ==
    \E c, d \in CmdIds :
        /\ c \in Queued
        /\ cmds[c].attempts >= 1
        /\ StatusIs(d, "timeout")
        /\ d \notin Queued

\* C38 as stated: a key enters alerts_sent only in a check in which its
\* alert was handed to _send_alert and delivered to the broker (the client
\* was connected); a raise that could not be published leaves the key out,
\* so that a later check raises it again
C38_ActiveOnlyIfDelivered ==
    [][ \A k \in AlertKeys :
          (k \notin alerts_sent /\ k \in alerts_sent') =>
              (k \in emitted' /\ mqtt_connected) ]_vars

\* C39 as stated: a schedule command is Completed with result True only if
\* the write of the start register and the write of the end register both
\* succeeded
C39_ScheduleSuccessNeedsBothWrites ==
    [][ ( /\ epc = "op_last"
          /\ epc' = "done"
          /\ cmds[dcmd].kind = "set_charge_schedule"
          /\ cmds'[dcmd].status = "completed"
          /\ cmds'[dcmd].result = "True" ) => start_written = "True" ]_vars

\* the dispatcher has nothing to do: no command waits and none is in hand
QueueIdle == queue = << >> /\ ~processing /\ current_command = 0

\* C40: with finitely many submissions and a dispatcher loop that keeps
\* iterating, every accepted command eventually has a terminal status
\* (Completed, Failed, TimedOut or Cancelled), and the queue eventually is
\* empty and idle: from some point on every accepted command is terminal
\* and the dispatcher has nothing to do
C40_EveryCommandEnds ==
    <>[](QueueIdle /\ \A c \in CmdIds : cmds[c].status \in Terminal)

\* every command that could be submitted was accepted and has ended, one of
\* them by its timeout and one after its handler returned, and the
\* dispatcher is idle
C40_Witness ==
    /\ Cardinality(CmdIds) = MaxCmds
    /\ \A c \in CmdIds : cmds[c].status \in Terminal
    /\ \E c \in CmdIds : StatusIs(c, "timeout")
    /\ \E c \in CmdIds : cmds[c].status \in {"completed", "failed"}
    /\ QueueIdle


====
